---- MODULE Spec2Model ----
(***************************************************************************)
(* Model of io_anim_c3d: the label partitioner (get_actor_masks), the      *)
(* importer (load / read_data / read_events), the exporter (export_c3d)    *)
(* and the batch import operator (ImportC3D.execute).                      *)
(*                                                                         *)
(* Strings are sequences of one-character strings, so that split(':'),     *)
(* startswith and the data-path formatting are computed, not assumed.      *)
(* Positions are integers in units of 1e-7 native length units, residuals  *)
(* are integers, keyframe times are rationals <<num, den>> in lowest terms.*)
(***************************************************************************)
EXTENDS Integers, Sequences, FiniteSets, TLC

VARIABLES pc, labels, actor_masks, actor_order, rec, opts, host, result, files, out

vars == <<pc, labels, actor_masks, actor_order, rec, opts, host, result, files, out>>

(***************************************************************************)
(* Bounds of the model.                                                    *)
(***************************************************************************)
MaxLabels == 3
MaxFrames == 2
MaxFirstFrame == 1
MaxEvents == 3
MaxFiles == 3

(***************************************************************************)
(* Generic helpers.                                                        *)
(***************************************************************************)
Range(s) == {s[i] : i \in 1..Len(s)}

SeqsUpTo(S, n) == UNION {[1..k -> S] : k \in 0..n}

Perms(S) == {p \in [1..Cardinality(S) -> S] : Range(p) = S}

Abs(x) == IF x < 0 THEN -x ELSE x

(* The element of a one-element set. *)
Only(S) == CHOOSE v \in S : TRUE

(* The subsequence of s at the positions where mask is true (numpy s[mask]). *)
RECURSIVE Select(_, _)
Select(s, mask) ==
    IF s = <<>> THEN <<>>
    ELSE (IF Head(mask) THEN <<Head(s)>> ELSE <<>>) \o Select(Tail(s), Tail(mask))

(***************************************************************************)
(* Strings.                                                                *)
(***************************************************************************)
Colon == ":"

UNLABELED == <<"U", "N", "L", "A", "B", "E", "L", "E", "D">>

HasColon(label) == \E i \in 1..Len(label) : label[i] = Colon

(* Index of the first ':' of a label that has one. *)
FirstColon(label) ==
    CHOOSE i \in 1..Len(label) :
        label[i] = Colon /\ \A j \in 1..(i - 1) : label[j] # Colon

(* str.startswith *)
StartsWith(s, prefix) ==
    Len(prefix) <= Len(s) /\ SubSeq(s, 1, Len(prefix)) = prefix

(* item.split(":", 1)[0] and item.split(":", 1)[1] for an item with a ':'. *)
SplitLeft(label) == SubSeq(label, 1, FirstColon(label) - 1)

SplitRight(label) == SubSeq(label, FirstColon(label) + 1, Len(label))

(***************************************************************************)
(* Actor/label partitioner: c3d_importer.get_actors, get_actor_masks.      *)
(***************************************************************************)
ActorOf(label) == IF HasColon(label) THEN SplitLeft(label) ELSE UNLABELED

get_actors(lbls) == {ActorOf(lbls[i]) : i \in 1..Len(lbls)}

(* A mask by the name alone, without the separator after it. *)
ActorMask_Prefix(actor, lbls) ==
    IF actor = UNLABELED
    THEN [i \in 1..Len(lbls) |-> ~HasColon(lbls[i])]
    ELSE [i \in 1..Len(lbls) |-> StartsWith(lbls[i], actor)]

ActorMask(actor, lbls) ==
    IF actor = UNLABELED
    THEN [i \in 1..Len(lbls) |-> ~HasColon(lbls[i])]
    ELSE [i \in 1..Len(lbls) |-> StartsWith(lbls[i], actor \o <<Colon>>)]

get_actor_masks(lbls) == [actor \in get_actors(lbls) |-> ActorMask(actor, lbls)]

(* Labels of the recordings the model draws from. *)
LabelPool ==
    { <<"h">>,
      <<"A", ":", "h">>,
      <<"A", ":", "k">>,
      <<"B", ":", "h">>,
      <<"A", "B", ":", "x">>,
      <<"A", ":", "B", ":", "C">>,
      <<":", "x">>,
      UNLABELED \o <<":", "x">> }

(***************************************************************************)
(* Rational numbers <<num, den>>, den > 0, in lowest terms: frame rates,   *)
(* the resample factor and keyframe times.                                 *)
(***************************************************************************)
RECURSIVE GCD(_, _)
GCD(a, b) == IF b = 0 THEN a ELSE GCD(b, a % b)

Rat(n, d) == LET g == GCD(Abs(n), d) IN <<n \div g, d \div g>>

RatOfInt(k) == <<k, 1>>

IntTimesRat(k, r) == Rat(k * r[1], r[2])

RatLeq(r, s) == r[1] * s[2] <= s[1] * r[2]

(* int(x): truncation toward zero. *)
IntPart(r) == IF r[1] >= 0 THEN r[1] \div r[2] ELSE -((-r[1]) \div r[2])

(* int(np.round(x)): round half to even. *)
RoundHalfEven(r) ==
    LET fl == r[1] \div r[2]
        twice == 2 * (r[1] - fl * r[2])
    IN  IF twice < r[2] THEN fl
        ELSE IF twice > r[2] THEN fl + 1
        ELSE IF fl % 2 = 0 THEN fl ELSE fl + 1

(***************************************************************************)
(* The recording as the parser presents it to load.                        *)
(*   labels       parser.point_labels()                                    *)
(*   first_frame  parser.first_frame                                       *)
(*   frames       the point blocks of parser.reader.read_frames(), one per *)
(*                frame first_frame..last_frame: frames[k][i] is the       *)
(*                sample [pos |-> <<x, y, z>>, res |-> residual] of label i*)
(*   frame_rate   parser.frame_rate                                        *)
(*   vendor_mask  parser.generate_label_mask(labels, 'POINT')              *)
(*   events       parser.events()                                          *)
(***************************************************************************)
(* A mix-up of header fields: the frame count taken for the point count. *)
point_used_FrameCount(r) == Len(r.frames)

point_used(r) == Len(r.labels)

last_frame(r) == r.first_frame + Len(r.frames) - 1

(* list(parser.reader.read_frames(copy=True)): (frame_index, points) pairs. *)
read_frames(r) ==
    [k \in 1..Len(r.frames) |-> [index |-> r.first_frame + k - 1, points |-> r.frames[k]]]

(***************************************************************************)
(* F-Curve data paths, as token sequences: the label is spliced in         *)
(* character by character between two '"' tokens.                          *)
(***************************************************************************)
Quote == "\""

LocationPath(label) == <<"pose.bones[", Quote>> \o label \o <<Quote, "]", ".location">>

ResidualPath(label) ==
    <<"pose.bones[", Quote>> \o label \o <<Quote, "]", "[", Quote, "residual", Quote, "]">>

(***************************************************************************)
(* c3d_importer.read_data: the validity of a sample.                       *)
(***************************************************************************)
(* The threshold taken as inclusive. *)
ValidSample_Inclusive(res, max_residual) ==
    IF max_residual > 0 THEN (res <= max_residual) /\ (res >= 0) ELSE res >= 0

ValidSample(res, max_residual) ==
    IF max_residual > 0 THEN (res < max_residual) /\ (res >= 0) ELSE res >= 0

(* The coordinate as it is in the file, without the orientation matrix. *)
Oriented_Unoriented(global_orient, pos, dim) == pos[dim]

(* np.matmul(global_orient, point_frames): one transformed coordinate. *)
Oriented(global_orient, pos, dim) ==
    global_orient[dim][1] * pos[1] + global_orient[dim][2] * pos[2]
        + global_orient[dim][3] * pos[3]

(* The cached frame whose row of the dense arrays is index (index = i - first_frame). *)
FrameRow(frames, first_frame, index) ==
    frames[CHOOSE k \in 1..Len(frames) : frames[k].index - first_frame = index]

(* Time of a position keyframe: frame_range = np.arange(0, nframes), times *)
(* frame_indices * conv_fac_frame_rate.                                    *)
PositionKeyTime(index, first_frame, conv_fac) == IntTimesRat(index, conv_fac)

(* Time of a residual keyframe: np.arange(first_frame, first_frame + nframes) * conv_fac. *)
ResidualKeyTime(index, first_frame, conv_fac) == IntTimesRat(first_frame + index, conv_fac)

(* Keyframes of one location curve: one per frame in which the label is valid. *)
RECURSIVE LocationKeys(_, _, _, _, _, _, _, _, _)
LocationKeys(frames, point_mask, global_orient, first_frame, nframes, conv_fac, max_residual, label_ind, dim) ==
    IF nframes <= 0 THEN <<>>
    ELSE LET index == nframes - 1
             sample == Select(FrameRow(frames, first_frame, index).points, point_mask)[label_ind]
         IN  LocationKeys(frames, point_mask, global_orient, first_frame, nframes - 1,
                          conv_fac, max_residual, label_ind, dim)
             \o (IF ValidSample(sample.res, max_residual)
                 THEN << <<PositionKeyTime(index, first_frame, conv_fac),
                           Oriented(global_orient, sample.pos, dim)>> >>
                 ELSE <<>>)

(* One residual keyframe for every frame, whether the value changes or not. *)
ResidualKeys_EveryFrame(frames, point_mask, first_frame, nframes, conv_fac, label_ind) ==
    [i \in 1..nframes |->
        <<ResidualKeyTime(i - 1, first_frame, conv_fac),
          Select(FrameRow(frames, first_frame, i - 1).points, point_mask)[label_ind].res>>]

(* Keyframes of one residual curve: the first frame, then every change of value. *)
RECURSIVE ResidualKeys(_, _, _, _, _, _)
ResidualKeys(frames, point_mask, first_frame, nframes, conv_fac, label_ind) ==
    IF nframes <= 0 THEN <<>>
    ELSE LET index == nframes - 1
             value == Select(FrameRow(frames, first_frame, index).points, point_mask)[label_ind].res
             before == ResidualKeys(frames, point_mask, first_frame, nframes - 1,
                                    conv_fac, label_ind)
             previous == Select(FrameRow(frames, first_frame, index - 1).points,
                                point_mask)[label_ind].res
         IN  IF index = 0 \/ value # previous
             THEN Append(before, <<ResidualKeyTime(index, first_frame, conv_fac), value>>)
             ELSE before

(* read_data: the keyframes of every location curve (by label and dimension) *)
(* and of every residual curve (by label) of one entity.                     *)
read_data(frames, nlabels, point_mask, global_orient, first_frame, nframes, conv_fac, max_residual) ==
    [location |->
        [l \in 1..nlabels |->
            [d \in 1..3 |->
                LocationKeys(frames, point_mask, global_orient, first_frame, nframes,
                             conv_fac, max_residual, l, d)]],
     residual |->
        [l \in 1..nlabels |->
            ResidualKeys(frames, point_mask, first_frame, nframes, conv_fac, l)]]

(***************************************************************************)
(* c3d_importer.read_events. An event is [frame, label, bad]: bad = "iter" *)
(* when parser.events() raises on reaching it, bad = "frame" when the      *)
(* marker is created and computing its frame raises, bad = "ok" otherwise. *)
(* A marker whose frame was never assigned has frame_set = FALSE.          *)
(***************************************************************************)
RECURSIVE EventLoop(_, _, _)
EventLoop(events, conv_fac, markers) ==
    IF events = <<>> THEN [markers |-> markers, raised |-> FALSE]
    ELSE LET e == Head(events)
         IN  IF e.bad = "iter" THEN [markers |-> markers, raised |-> TRUE]
             ELSE IF e.bad = "frame"
             THEN [markers |-> Append(markers, [name |-> e.label, frame |-> 0,
                                                frame_set |-> FALSE]),
                   raised |-> TRUE]
             ELSE EventLoop(Tail(events), conv_fac,
                            Append(markers,
                                   [name |-> e.label,
                                    frame |-> RoundHalfEven(IntTimesRat(e.frame, conv_fac)),
                                    frame_set |-> TRUE]))

Report(h, level, message) == [h EXCEPT !.reports = Append(@, <<level, message>>)]

(* The try block of read_events with its two except clauses. *)
read_events(events, conv_fac, action) ==
    LET loop == EventLoop(events, conv_fac, action.pose_markers)
    IN  [action |-> [action EXCEPT !.pose_markers = loop.markers],
         warned |-> loop.raised]

(***************************************************************************)
(* C3DParseDictionary.make_labels_unique: the first occurrence keeps its   *)
(* name, the k-th occurrence (k > 1) gets the suffix "_k".                 *)
(***************************************************************************)
Digits == <<"1", "2", "3", "4", "5", "6", "7", "8", "9">>

Occurrence(s, i) == Cardinality({j \in 1..i : s[j] = s[i]})

make_labels_unique(s) ==
    [i \in 1..Len(s) |->
        IF Occurrence(s, i) = 1 THEN s[i] ELSE s[i] \o <<"_", Digits[Occurrence(s, i)]>>]

(***************************************************************************)
(* c3d_importer.generate_blend_curves and clean_empty_fcurves.             *)
(***************************************************************************)
(* The 3 location curves of every label, label by label. The field point is *)
(* bookkeeping of the model: the position in the recording's label list of   *)
(* the label the curve was generated for.                                    *)
LocationCurves(unique_labels, points, keys) ==
    [c \in 1..(3 * Len(unique_labels)) |->
        LET l == ((c - 1) \div 3) + 1
            d == ((c - 1) % 3) + 1
        IN  [data_path |-> LocationPath(unique_labels[l]),
             array_index |-> d - 1,
             group |-> unique_labels[l],
             point |-> points[l],
             keyframe_points |-> keys.location[l][d]]]

ResidualCurves(unique_labels, points, keys) ==
    [l \in 1..Len(unique_labels) |->
        [data_path |-> ResidualPath(unique_labels[l]),
         array_index |-> 0,
         group |-> unique_labels[l],
         point |-> points[l],
         keyframe_points |-> keys.residual[l]]]

HasKeyframes(fc) == Len(fc.keyframe_points) # 0

(* No curve removed. *)
clean_empty_fcurves_KeepAll(fcurves) == fcurves

clean_empty_fcurves(fcurves) == SelectSeq(fcurves, HasKeyframes)

(* load's test "action.fcurves == 0": a collection compared with the integer 0, *)
(* which is never equal.                                                        *)
(* The test on the number of curves: len(action.fcurves) == 0. *)
FcurvesEqualZero_Len(fcurves) == Len(fcurves) = 0

FcurvesEqualZero(fcurves) == FALSE

(* [fc_grp.name for fc_grp in action.groups]: the groups of the action's curves, *)
(* in order of creation.                                                          *)
RECURSIVE GroupNames(_, _)
GroupNames(fcurves, seen) ==
    IF fcurves = <<>> THEN seen
    ELSE GroupNames(Tail(fcurves),
                    IF Head(fcurves).group \in Range(seen) THEN seen
                    ELSE Append(seen, Head(fcurves).group))

(***************************************************************************)
(* c3d_importer.load. The host (Blender) state is                          *)
(*   scene        [fps, frame_start, frame_end, sync_mode]                 *)
(*   collections  names of the collections of bpy.data.collections         *)
(*   actions      bpy.data.actions: [name, fcurves, pose_markers]          *)
(*   armatures    armature objects: [name, bones, action], action being    *)
(*                the position of its action in actions                    *)
(*   reports      what operator.report was called with                     *)
(***************************************************************************)
Atol == 10

(* np.allclose(last_frame_points[:, :3], 0.0, atol=1e-6) *)
AllCloseZero(points) ==
    \A i \in 1..Len(points) : \A d \in 1..3 : Abs(points[i].pos[d]) <= Atol

(* labels with the actor name stripped: item.split(":", 1)[1] if ":" in item. *)
StripActor(lbls) ==
    [i \in 1..Len(lbls) |-> IF HasColon(lbls[i]) THEN SplitRight(lbls[i]) ELSE lbls[i]]

AllTrue(lbls) == [i \in 1..Len(lbls) |-> TRUE]

(* An armatures dict that is split by actor whatever split_actors says. *)
ArmatureMasks_Split(r, o) == get_actor_masks(r.labels)

(* The armatures dict of load: entity name -> mask. *)
ArmatureMasks(r, o) ==
    IF o.split_actors THEN get_actor_masks(r.labels)
    ELSE [name \in {r.file_name} |-> AllTrue(r.labels)]

(* The orders in which "for armature_name, armature_mask in armatures.items()" *)
(* may visit the entities.                                                      *)
ArmatureOrders(r, o) == Perms(DOMAIN ArmatureMasks(r, o))

(* Assignment to scene.frame_end and scene.frame_start. The host's setters *)
(* keep a frame number at 0 or above and keep frame_start <= frame_end by  *)
(* moving the other end of the range.                                      *)
ClampFrame(value) == IF value < 0 THEN 0 ELSE value

SetFrameEnd(scene, value) ==
    [scene EXCEPT !.frame_end = ClampFrame(value),
                  !.frame_start = IF @ > ClampFrame(value) THEN ClampFrame(value) ELSE @]

SetFrameStart(scene, value) ==
    [scene EXCEPT !.frame_start = ClampFrame(value),
                  !.frame_end = IF ClampFrame(value) > @ THEN ClampFrame(value) ELSE @]

(* Scene settings made right after the header is read. *)
SceneFromHeader(scene, r, o) ==
    LET rated == IF o.set_frame_rate THEN [scene EXCEPT !.fps = IntPart(r.frame_rate)]
                 ELSE scene
        ranged == IF o.set_end_frame
                  THEN SetFrameStart(SetFrameEnd(rated, last_frame(r) - 1), r.first_frame)
                  ELSE rated
    IN  IF o.set_playback_mode THEN [ranged EXCEPT !.sync_mode = "FRAME_DROP"] ELSE ranged

(* A factor taken from the frame rate a new scene has (24) before load sets it. *)
ConvFacFrameRate_BeforeSet(fps, r, o) ==
    IF o.resample_frame_rate THEN Rat(24 * r.frame_rate[2], r.frame_rate[1])
    ELSE RatOfInt(1)

(* conv_fac_frame_rate *)
ConvFacFrameRate(fps, r, o) ==
    IF o.resample_frame_rate THEN Rat(fps * r.frame_rate[2], r.frame_rate[1]) ELSE RatOfInt(1)

(* The scene end frame when the trailing all-zero frame is dropped. *)
EndFrameAfterDrop(r) == last_frame(r) - 2

(* One iteration of the loop over the armatures. *)
LoadArmature(h, armature_name, armature_mask, r, o, software_mask, cached_frames, nframes, conv_fac) ==
    LET point_mask == [i \in 1..Len(r.labels) |-> software_mask[i] /\ armature_mask[i]]
        unique_labels == make_labels_unique(Select(StripActor(r.labels), point_mask))
        nlabels == Len(unique_labels)
        h1 == IF nlabels = 0
              THEN Report(h, "WARNING", <<"All POINT data was culled for armature",
                                          armature_name>>)
              ELSE h
        keys == read_data(cached_frames, nlabels, point_mask, o.global_orient,
                          r.first_frame, nframes, conv_fac, o.max_residual)
        points == Select([i \in 1..Len(r.labels) |-> i], point_mask)
        generated == LocationCurves(unique_labels, points, keys)
                         \o ResidualCurves(unique_labels, points, keys)
        fcurves == IF ~o.include_empty_labels THEN clean_empty_fcurves(generated)
                   ELSE generated
        action == [name |-> <<r.file_name, armature_name>>, fcurves |-> fcurves,
                   pose_markers |-> <<>>]
    IN  IF FcurvesEqualZero(fcurves)
        THEN [host |-> Report(h1, "WARNING", "No valid POINT data in file"),
              result |-> "CANCELLED"]
        ELSE LET ev == IF o.include_event_markers
                       THEN read_events(r.events, conv_fac, action)
                       ELSE [action |-> action, warned |-> FALSE]
                 h2 == IF ev.warned THEN Report(h1, "WARNING", "event") ELSE h1
                 arm == [name |-> armature_name, bones |-> GroupNames(fcurves, <<>>),
                         action |-> Len(h.actions) + 1]
             IN  [host |-> [h2 EXCEPT !.actions = Append(@, ev.action),
                                      !.armatures = IF o.create_armature
                                                    THEN Append(@, arm) ELSE @],
                  result |-> "CONTINUE"]

RECURSIVE LoadArmatures(_, _, _, _, _, _, _, _, _)
LoadArmatures(h, order, armatures, r, o, software_mask, cached_frames, nframes, conv_fac) ==
    IF order = <<>> THEN [host |-> h, result |-> "CONTINUE"]
    ELSE Only({ IF one.result = "CANCELLED" THEN one
                  ELSE LoadArmatures(one.host, Tail(order), armatures, r, o, software_mask,
                                     cached_frames, nframes, conv_fac) :
                  one \in {LoadArmature(h, Head(order), armatures[Head(order)], r, o,
                                        software_mask, cached_frames, nframes, conv_fac)} })

AddCollection(h, name) ==
    IF name \in Range(h.collections) THEN h ELSE [h EXCEPT !.collections = Append(@, name)]

(* load(operator, context, filepath, ...): the host state it leaves and what it *)
(* returns; "EXCEPTION" stands for an exception leaving load.                   *)
load(h, r, o, order) ==
    IF ~r.readable THEN [host |-> h, result |-> "EXCEPTION"]
    ELSE IF point_used(r) = 0
    THEN [host |-> Report(h, "WARNING", "No POINT data in file"), result |-> "CANCELLED"]
    ELSE
    LET scene1 == SceneFromHeader(h.scene, r, o)
        conv_fac == ConvFacFrameRate(scene1.fps, r, o)
        software_mask == IF o.apply_label_mask THEN r.vendor_mask ELSE AllTrue(r.labels)
        read == read_frames(r)
        dropped == read # <<>> /\ AllCloseZero(read[Len(read)].points)
        cached_frames == IF dropped THEN SubSeq(read, 1, Len(read) - 1) ELSE read
        scene2 == IF dropped /\ o.set_end_frame
                  THEN SetFrameEnd(scene1, EndFrameAfterDrop(r))
                  ELSE scene1
        h1 == [h EXCEPT !.scene = scene2, !.collections = Append(@, r.file_name)]
    IN  IF read # <<>> /\ cached_frames = <<>>
        THEN [host |-> h1, result |-> "EXCEPTION"]
        ELSE
        LET nframes == IF read = <<>> THEN last_frame(r) - r.first_frame + 1
                       ELSE cached_frames[Len(cached_frames)].index - r.first_frame + 1
            h2 == AddCollection(h1, <<"CustomShapes">>)
            done == LoadArmatures(h2, order, ArmatureMasks(r, o), r, o, software_mask,
                                  cached_frames, nframes, conv_fac)
        IN  IF done.result = "CANCELLED" THEN done
            ELSE [host |-> [done.host EXCEPT !.collections = Append(@, <<"Metadata">>)],
                  result |-> "FINISHED"]

(***************************************************************************)
(* c3d_exporter: get_bone_name, get_full_bone_name, export_c3d.            *)
(***************************************************************************)
Min(S) == CHOOSE x \in S : \A y \in S : x <= y

QuotePositions(data_path) == {i \in 1..Len(data_path) : data_path[i] = Quote}

(* data_path.split('"') has an element [1] only if the path holds a '"'. *)
HasBoneName(data_path) == QuotePositions(data_path) # {}

(* data_path.split('"')[1]: the text between the first '"' and the next one, *)
(* or the end of the path.                                                   *)
get_bone_name(data_path) ==
    LET first == Min(QuotePositions(data_path))
        later == {i \in QuotePositions(data_path) : i > first}
        stop == IF later = {} THEN Len(data_path) + 1 ELSE Min(later)
    IN  SubSeq(data_path, first + 1, stop - 1)

get_full_bone_name(armature, fcurve) ==
    IF armature.name = UNLABELED THEN get_bone_name(fcurve.data_path)
    ELSE armature.name \o <<Colon>> \o get_bone_name(fcurve.data_path)

(* list(dict.fromkeys(labels)): the first occurrences, in order. *)
RECURSIVE Dedupe(_, _)
Dedupe(s, seen) ==
    IF s = <<>> THEN seen
    ELSE Dedupe(Tail(s), IF Head(s) \in Range(seen) THEN seen ELSE Append(seen, Head(s)))

(* labels.index(name) + 1 *)
IndexOf(s, x) == Min({i \in 1..Len(s) : s[i] = x})

(* The F-Curves of the action of an armature object. *)
ActionCurves(h, obj) == h.actions[h.armatures[obj].action].fcurves

(* The first loop over objects_to_export: one label per F-Curve. *)
RECURSIVE CollectLabels(_, _)
CollectLabels(h, objects) ==
    IF objects = <<>> THEN <<>>
    ELSE LET fcurves == ActionCurves(h, Head(objects))
         IN  [c \in 1..Len(fcurves) |-> get_full_bone_name(h.armatures[Head(objects)],
                                                            fcurves[c])]
             \o CollectLabels(h, Tail(objects))

(* A writer of the value that leaves the residual of the cell as it was. *)
RECURSIVE ExportKeys_ValueOnly(_, _, _, _, _, _)
ExportKeys_ValueOnly(keyframes, kps, bone_index, array_index, frame_start, frame_count) ==
    IF kps = <<>> THEN keyframes
    ELSE LET kp == Head(kps)
             frame_index == IntPart(kp[1]) - frame_start
             written == IF 0 <= frame_index /\ frame_index < frame_count
                        THEN [keyframes EXCEPT
                                 ![frame_index + 1][bone_index].pos[array_index + 1] = kp[2]]
                        ELSE keyframes
         IN  ExportKeys_ValueOnly(written, Tail(kps), bone_index, array_index,
                                  frame_start, frame_count)

(* for kp in fcu.keyframe_points: write the value and the residual 0. *)
RECURSIVE ExportKeys(_, _, _, _, _, _)
ExportKeys(keyframes, kps, bone_index, array_index, frame_start, frame_count) ==
    IF kps = <<>> THEN keyframes
    ELSE LET kp == Head(kps)
             frame_index == IntPart(kp[1]) - frame_start
             written == IF 0 <= frame_index /\ frame_index < frame_count
                        THEN [keyframes EXCEPT ![frame_index + 1][bone_index] =
                                 [pos |-> [@.pos EXCEPT ![array_index + 1] = kp[2]],
                                  res |-> 0]]
                        ELSE keyframes
         IN  ExportKeys(written, Tail(kps), bone_index, array_index, frame_start,
                        frame_count)

(* for fcu in obj.animation_data.action.fcurves: only the '.location' curves. *)
RECURSIVE ExportCurves(_, _, _, _, _, _)
ExportCurves(keyframes, armature, fcurves, lbls, frame_start, frame_count) ==
    IF fcurves = <<>> THEN keyframes
    ELSE LET fcu == Head(fcurves)
             full_bone_name == get_full_bone_name(armature, fcu)
             written ==
                 IF fcu.data_path[Len(fcu.data_path)] # ".location" THEN keyframes
                 ELSE IF full_bone_name \notin Range(lbls) THEN keyframes
                 ELSE ExportKeys(keyframes, fcu.keyframe_points,
                                 IndexOf(lbls, full_bone_name), fcu.array_index,
                                 frame_start, frame_count)
         IN  ExportCurves(written, armature, Tail(fcurves), lbls, frame_start, frame_count)

(* The second loop over objects_to_export. *)
RECURSIVE ExportObjects(_, _, _, _, _, _)
ExportObjects(keyframes, h, objects, lbls, frame_start, frame_count) ==
    IF objects = <<>> THEN keyframes
    ELSE ExportObjects(ExportCurves(keyframes, h.armatures[Head(objects)],
                                    ActionCurves(h, Head(objects)), lbls, frame_start,
                                    frame_count),
                       h, Tail(objects), lbls, frame_start, frame_count)

(* keyframes[..., :3] @ global_orient.T *)
OrientFrames(keyframes, global_orient) ==
    [f \in 1..Len(keyframes) |->
        [b \in 1..Len(keyframes[f]) |->
            [pos |-> [d \in 1..3 |-> Oriented(global_orient, keyframes[f][b].pos, d)],
             res |-> keyframes[f][b].res]]]

NothingWritten(returned) ==
    [returned |-> returned, written |-> FALSE, labels |-> <<>>, frames |-> <<>>]

(* export_c3d on the armature objects objects (positions in h.armatures): what *)
(* it returns and the file it writes, "EXCEPTION" standing for an exception    *)
(* leaving export_c3d.                                                         *)
export_c3d(h, objects, global_orient) ==
    LET frame_start == h.scene.frame_start
        frame_end == h.scene.frame_end + 1
        frame_count == frame_end - frame_start
    IN  IF \E i \in 1..Len(objects) : \E c \in 1..Len(ActionCurves(h, objects[i])) :
               ~HasBoneName(ActionCurves(h, objects[i])[c].data_path)
        THEN NothingWritten("EXCEPTION")
        ELSE IF CollectLabels(h, objects) = <<>> THEN NothingWritten("CANCELLED")
        ELSE IF frame_count <= 0 THEN NothingWritten("EXCEPTION")
        ELSE LET lbls == Dedupe(CollectLabels(h, objects), <<>>)
                 points == [b \in 1..Len(lbls) |-> [pos |-> <<0, 0, 0>>, res |-> -1]]
                 keyframes == [f \in 1..frame_count |-> points]
                 filled == ExportObjects(keyframes, h, objects, lbls, frame_start,
                                         frame_count)
             IN  [returned |-> "FINISHED", written |-> TRUE, labels |-> lbls,
                  frames |-> OrientFrames(filled, global_orient)]

(***************************************************************************)
(* The operators of __init__.py: ImportC3D.execute and ExportC3D.execute.  *)
(***************************************************************************)
(* os.path.join(self.directory, file.name) *)
PathOf(r) == r.file_name

(* A file counted as failed whatever load returned. *)
FileFailed_Always(msg) == TRUE

(* msg != {'FINISHED'}, or an exception caught by "except Exception". *)
FileFailed(msg) == msg # "FINISHED"

(* The loop "for file in self.files" with its try block. Changes load made to *)
(* the host before raising stay.                                               *)
RECURSIVE LoadFiles(_, _, _, _, _, _)
LoadFiles(h, fs, o, orders, calls, failed) ==
    IF fs = <<>> THEN [host |-> h, calls |-> calls, failed |-> failed]
    ELSE Only({ LoadFiles(done.host, Tail(fs), o, Tail(orders),
                          Append(calls, [path |-> PathOf(Head(fs)), msg |-> done.result]),
                          IF FileFailed(done.result) THEN Append(failed, PathOf(Head(fs)))
                          ELSE failed) :
                  done \in {load(h, Head(fs), o, Head(orders))} })

(* "Report any file issue(s)" and the value returned after the loop. *)
ReportFailed(run, nfiles) ==
    IF run.failed # <<>>
    THEN IF Len(run.failed) = nfiles
         THEN [host |-> Report(run.host, "ERROR", run.failed),
               result |-> "CANCELLED", calls |-> run.calls, failed |-> run.failed]
         ELSE [host |-> Report(run.host, "WARNING", run.failed),
               result |-> "FINISHED", calls |-> run.calls, failed |-> run.failed]
    ELSE [host |-> run.host, result |-> "FINISHED", calls |-> run.calls,
          failed |-> run.failed]

ImportC3D_execute(h, fs, filepath, o, orders, order) ==
    IF fs # <<>>
    THEN Only({ ReportFailed(run, Len(fs)) : run \in {LoadFiles(h, fs, o, orders, <<>>, <<>>)} })
    ELSE Only({ [host |-> done.host, result |-> done.result,
                 calls |-> << [path |-> PathOf(filepath), msg |-> done.result] >>,
                 failed |-> <<>>] :
                 done \in {load(h, filepath, o, order)} })

(* ExportC3D.execute: the value export_c3d returns is dropped. *)
ExportC3D_execute(h, objects, global_orient) ==
    LET exported == export_c3d(h, objects, global_orient)
    IN  [out |-> exported,
         result |-> IF exported.returned = "EXCEPTION" THEN "EXCEPTION" ELSE "FINISHED"]

(***************************************************************************)
(* Values of the variables a specification does not use.                   *)
(***************************************************************************)
NoRec == [readable |-> FALSE]
NoOpts == [split_actors |-> FALSE]
NoHost == [reports |-> <<>>]

(***************************************************************************)
(* The recordings and options the importer is run on.                      *)
(***************************************************************************)
Identity == << <<1, 0, 0>>, <<0, 1, 0>>, <<0, 0, 1>> >>

(* A scaled axis swap: x' = 2y, y' = 2x, z' = 2z. *)
SwapScaled == << <<0, 2, 0>>, <<2, 0, 0>>, <<0, 0, 2>> >>

SamplePool ==
    { [pos |-> <<0, 0, 0>>, res |-> -1],
      [pos |-> <<1000, 2000, 3000>>, res |-> 0],
      [pos |-> <<0, 0, 5>>, res |-> 2] }

FileName == <<"f">>

LoadLabelLists ==
    { <<>>,
      << <<"h">> >>,
      << UNLABELED \o <<":", "x">> >>,
      << <<"A", ":", "h">>, <<"h">> >> }

(* What generate_label_mask may answer for n labels when it excludes something: *)
(* here the first label.                                                        *)
VendorMasks(n) == {[i \in 1..n |-> i # 1]}

Recordings(lists, pool, framecounts, firstframes, rates, masked, eventlists) ==
    UNION { UNION { { [readable |-> TRUE, file_name |-> FileName, labels |-> ls,
                       first_frame |-> ff, frames |-> fr, frame_rate |-> rate,
                       vendor_mask |-> vm, events |-> ev] :
                        ff \in firstframes, rate \in rates, ev \in eventlists,
                        vm \in IF masked THEN VendorMasks(Len(ls))
                               ELSE {[i \in 1..Len(ls) |-> TRUE]},
                        fr \in [1..nf -> [1..Len(ls) -> pool]] } :
                    nf \in framecounts } :
            ls \in lists }

DefaultOpts ==
    [split_actors |-> TRUE, apply_label_mask |-> TRUE, include_empty_labels |-> FALSE,
     set_frame_rate |-> TRUE, set_end_frame |-> TRUE, set_playback_mode |-> TRUE,
     resample_frame_rate |-> FALSE, max_residual |-> 0, include_event_markers |-> FALSE,
     create_armature |-> TRUE, global_orient |-> Identity]

(* A new Blender scene. *)
NewHost ==
    [scene |-> [fps |-> 24, frame_start |-> 1, frame_end |-> 250, sync_mode |-> "NONE"],
     collections |-> <<>>, actions |-> <<>>, armatures |-> <<>>, reports |-> <<>>]

(***************************************************************************)
(* Specification of the importer: one call of load on a new scene.         *)
(***************************************************************************)
Idle ==
    /\ labels = <<>>
    /\ actor_masks = <<>>
    /\ actor_order = <<>>
    /\ files = <<>>
    /\ out = <<>>

InitLoad ==
    /\ pc = "start"
    /\ \E masked \in BOOLEAN :
        /\ rec \in Recordings(LoadLabelLists, SamplePool, 1..MaxFrames, 0..MaxFirstFrame,
                              {<<30, 1>>}, masked, {<<>>})
        /\ \E split \in BOOLEAN, empty \in BOOLEAN, endframe \in BOOLEAN :
            opts = [DefaultOpts EXCEPT !.apply_label_mask = masked,
                                       !.split_actors = split,
                                       !.include_empty_labels = empty,
                                       !.set_end_frame = endframe]
    /\ host = NewHost
    /\ result = "none"
    /\ Idle

Load ==
    /\ pc = "start"
    /\ pc' = "loaded"
    /\ \E order \in ArmatureOrders(rec, opts) :
        LET done == load(host, rec, opts, order)
        IN  /\ host' = done.host
            /\ result' = done.result
            /\ actor_order' = order
    /\ UNCHANGED <<labels, actor_masks, rec, opts, files, out>>

NextLoad == Load

SpecLoad == InitLoad /\ [][NextLoad]_vars

(***************************************************************************)
(* Specification of the residual policy: load on recordings of one label   *)
(* with residuals -1..MaxResidual and thresholds -1..MaxResidual + 1.      *)
(***************************************************************************)
MaxResidual == 2

ResidualPool == {[pos |-> <<1000, 2000, 3000>>, res |-> r] : r \in -1..MaxResidual}

InitResidual ==
    /\ pc = "start"
    /\ rec \in Recordings({<< <<"h">> >>}, ResidualPool, 1..MaxFrames, {0},
                          {<<30, 1>>}, FALSE, {<<>>})
    /\ \E maxres \in -1..(MaxResidual + 1) :
        opts = [DefaultOpts EXCEPT !.max_residual = maxres]
    /\ host = NewHost
    /\ result = "none"
    /\ Idle

SpecResidual == InitResidual /\ [][NextLoad]_vars

(***************************************************************************)
(* Specification of the partitioner: get_actor_masks on a label list.      *)
(* The actors are a Python set of strings, whose iteration order (and so   *)
(* the key order of the returned dict) is any order.                       *)
(***************************************************************************)
InitMasks ==
    /\ pc = "start"
    /\ labels \in SeqsUpTo(LabelPool, MaxLabels)
    /\ actor_masks = <<>>
    /\ actor_order = <<>>
    /\ rec = NoRec
    /\ opts = NoOpts
    /\ host = NoHost
    /\ result = "none"
    /\ files = <<>>
    /\ out = <<>>

GetActorMasks ==
    /\ pc = "start"
    /\ pc' = "done"
    /\ actor_masks' = get_actor_masks(labels)
    /\ actor_order' \in Perms(get_actors(labels))
    /\ UNCHANGED <<labels, rec, opts, host, result, files, out>>

NextMasks == GetActorMasks

SpecMasks == InitMasks /\ [][NextMasks]_vars

(***************************************************************************)
(* C1: partition completeness: every label position is selected by exactly *)
(* one entity's mask (the masks are mutually exclusive and exhaustive).    *)
(***************************************************************************)
C1_PartitionComplete ==
    pc = "done" =>
        \A i \in 1..Len(labels) :
            Cardinality({a \in DOMAIN actor_masks : actor_masks[a][i]}) = 1

(***************************************************************************)
(* What the claims about load speak of, computed from the recording.       *)
(***************************************************************************)
Loaded == pc = "loaded" /\ result = "FINISHED"

(* The sample of label p at native frame f. *)
SampleAt(r, f, p) == r.frames[f - r.first_frame + 1][p]

(* The final frame of the recording has all-zero position data. *)
TrailingZeroFrame(r) ==
    \A p \in 1..Len(r.labels) : r.frames[Len(r.frames)][p].pos = <<0, 0, 0>>

(* The native frames load generates channels from. *)
ImportedFrames(r) ==
    IF AllCloseZero(r.frames[Len(r.frames)]) THEN r.first_frame..(last_frame(r) - 1)
    ELSE r.first_frame..last_frame(r)

(* The residual policy as the specification states it. *)
PolicyValid(res, threshold) == res >= 0 /\ (threshold <= 0 \/ res < threshold)

(* The imported native frames in which label p is valid, in increasing order. *)
RECURSIVE FramesUpTo(_, _, _, _)
FramesUpTo(r, o, p, f) ==
    IF f < r.first_frame THEN <<>>
    ELSE FramesUpTo(r, o, p, f - 1)
         \o (IF f \in ImportedFrames(r) /\ PolicyValid(SampleAt(r, f, p).res, o.max_residual)
             THEN <<f>> ELSE <<>>)

ValidFrames(r, o, p) == FramesUpTo(r, o, p, last_frame(r))

IsLocationCurve(fc) == fc.data_path[Len(fc.data_path)] = ".location"

AllCurves == UNION {Range(host.actions[a].fcurves) : a \in 1..Len(host.actions)}

LocationCurvesOf(p) == {fc \in AllCurves : IsLocationCurve(fc) /\ fc.point = p}

KeyTimes(fc) == {fc.keyframe_points[k][1] : k \in 1..Len(fc.keyframe_points)}

(* The resample factor load is specified to use. *)
ResampleFactor == ConvFacFrameRate(host.scene.fps, rec, opts)

(***************************************************************************)
(* C3: every position keyframe of a sample taken at native frame f has     *)
(* time f * resample_factor (with factor 1, the native frame index), for   *)
(* every first_frame.                                                      *)
(***************************************************************************)
C3_KeyframeTimes ==
    Loaded =>
        \A p \in 1..Len(rec.labels) : \A fc \in LocationCurvesOf(p) :
            LET fs == ValidFrames(rec, opts, p)
            IN  /\ Len(fc.keyframe_points) = Len(fs)
                /\ \A k \in 1..Len(fs) :
                    fc.keyframe_points[k][1] = IntTimesRat(fs[k], ResampleFactor)

C5_EmptyLabelsPruned ==
    (Loaded /\ ~opts.include_empty_labels) =>
        \A p \in 1..Len(rec.labels) :
            ValidFrames(rec, opts, p) = <<>> => ~\E fc \in AllCurves : fc.point = p

(***************************************************************************)
(* C6: when the final frame has all-zero positions, no keyframe is         *)
(* generated for it, the last position keyframe of a label valid at native *)
(* frame last_frame - 1 is at the time of that frame, and the scene end    *)
(* frame set by load is last_frame - 1.                                    *)
(***************************************************************************)
C6_TrailingZeroFrame ==
    (Loaded /\ TrailingZeroFrame(rec)) =>
        LET final == IntTimesRat(last_frame(rec) - 1, ResampleFactor)
        IN  /\ \A fc \in AllCurves : \A t \in KeyTimes(fc) : RatLeq(t, final)
            /\ \A p \in 1..Len(rec.labels) : \A fc \in LocationCurvesOf(p) :
                PolicyValid(SampleAt(rec, last_frame(rec) - 1, p).res, opts.max_residual)
                    => fc.keyframe_points[Len(fc.keyframe_points)][1] = final
            /\ opts.set_end_frame => host.scene.frame_end = last_frame(rec) - 1

(***************************************************************************)
(* C9: a recording with no point data is reported and load returns         *)
(* CANCELLED with the host unchanged: scene settings untouched and no      *)
(* collection, action or armature created.                                 *)
(***************************************************************************)
C9_NoPointDataFailsFast ==
    (pc = "loaded" /\ rec.labels = <<>>) =>
        /\ result = "CANCELLED"
        /\ host.scene = NewHost.scene
        /\ host.collections = <<>>
        /\ host.actions = <<>>
        /\ host.armatures = <<>>
        /\ host.reports = << <<"WARNING", "No POINT data in file">> >>

(* A load of a recording without points whose options ask for scene changes. *)
C9_Witness ==
    /\ pc = "loaded"
    /\ rec.labels = <<>>
    /\ opts.set_end_frame
    /\ opts.set_frame_rate
    /\ result = "CANCELLED"

(***************************************************************************)
(* C10: after a load that returns FINISHED every action it created has at  *)
(* least one F-Curve.                                                      *)
(***************************************************************************)
C10_NoEmptyActions ==
    Loaded => \A a \in 1..Len(host.actions) : Len(host.actions[a].fcurves) > 0

(***************************************************************************)
(* Specification of the round trip: load with identity orientation, no     *)
(* label mask, no actor split and empty labels kept, then ExportC3D.       *)
(***************************************************************************)
RoundTripLabelLists == { << <<"h">> >>, << <<"h">>, <<"k">> >> }

InitRoundTrip ==
    /\ pc = "start"
    /\ rec \in Recordings(RoundTripLabelLists, SamplePool, 1..MaxFrames, 0..MaxFirstFrame,
                          {<<30, 1>>}, FALSE, {<<>>})
    /\ opts = [DefaultOpts EXCEPT !.apply_label_mask = FALSE,
                                  !.split_actors = FALSE,
                                  !.include_empty_labels = TRUE]
    /\ host = NewHost
    /\ result = "none"
    /\ Idle

(* scene.objects, or context.selected_objects for a selection of the objects. *)
ObjectsToExport(h, export_scope, selected) ==
    IF export_scope = "ALL" THEN [i \in 1..Len(h.armatures) |-> i]
    ELSE Select([i \in 1..Len(h.armatures) |-> i],
                [i \in 1..Len(h.armatures) |-> i \in selected])

Export ==
    /\ pc = "loaded"
    /\ pc' = "exported"
    /\ \E export_scope \in {"ALL", "SELECTED"}, global_orient \in {Identity, SwapScaled} :
        \E selected \in IF export_scope = "ALL" THEN {{}}
                        ELSE SUBSET (1..Len(host.armatures)) :
            LET done == ExportC3D_execute(host,
                                          ObjectsToExport(host, export_scope, selected),
                                          global_orient)
            IN  out' = [file |-> done.out, returned |-> done.result,
                        export_scope |-> export_scope, global_orient |-> global_orient,
                        objects |-> ObjectsToExport(host, export_scope, selected)]
    /\ UNCHANGED <<labels, actor_masks, actor_order, rec, opts, host, result, files>>

NextRoundTrip == Load \/ Export

SpecRoundTrip == InitRoundTrip /\ [][NextRoundTrip]_vars

(* The rows of the exported file that carry label p of the recording. *)
ExportedRows(p) ==
    {b \in 1..Len(out.file.labels) :
        \E a \in 1..Len(host.armatures) : \E fc \in Range(ActionCurves(host, a)) :
            fc.point = p /\ get_full_bone_name(host.armatures[a], fc) = out.file.labels[b]}

(***************************************************************************)
(* C2: round trip: after load and export of everything with the identity   *)
(* orientation the file has as many frames as the recording, and for every *)
(* native frame f and label a valid sample is at the row of f with its     *)
(* position and an invalid sample has residual -1.                         *)
(***************************************************************************)
C2_RoundTrip ==
    (pc = "exported" /\ result = "FINISHED" /\ out.export_scope = "ALL"
        /\ out.global_orient = Identity) =>
        /\ out.file.written
        /\ Len(out.file.frames) = Len(rec.frames)
        /\ \A p \in 1..Len(rec.labels) :
            /\ Cardinality(ExportedRows(p)) = 1
            /\ \A b \in ExportedRows(p) : \A f \in rec.first_frame..last_frame(rec) :
                LET row == out.file.frames[f - rec.first_frame + 1][b]
                    sample == SampleAt(rec, f, p)
                IN  IF PolicyValid(sample.res, opts.max_residual)
                    THEN row.pos = sample.pos /\ row.res >= 0
                    ELSE row.res = -1

(***************************************************************************)
(* Specification of the event translation: load with event markers on, on  *)
(* recordings whose events may be malformed.                               *)
(***************************************************************************)
EventPool ==
    { [frame |-> 1, label |-> "e1", bad |-> "ok"],
      [frame |-> 3, label |-> "e2", bad |-> "ok"],
      [frame |-> 2, label |-> "x", bad |-> "iter"],
      [frame |-> 2, label |-> "y", bad |-> "frame"] }

InitEvents ==
    /\ pc = "start"
    /\ rec \in Recordings({<< <<"h">> >>}, {[pos |-> <<1000, 2000, 3000>>, res |-> 0]},
                          {1}, {0}, {<<30, 1>>}, FALSE, SeqsUpTo(EventPool, MaxEvents))
    /\ \E resample \in BOOLEAN :
        opts = [DefaultOpts EXCEPT !.include_event_markers = TRUE,
                                   !.resample_frame_rate = resample,
                                   !.set_frame_rate = ~resample]
    /\ host = NewHost
    /\ result = "none"
    /\ Idle

SpecEvents == InitEvents /\ [][NextLoad]_vars

IsOk(e) == e.bad = "ok"

FrameSet(marker) == marker.frame_set

(***************************************************************************)
(* C7: per-event fault tolerance: every well-formed event of the sequence, *)
(* also one that comes after a malformed event, is turned into a marker at *)
(* round(frame * resample_factor), and a malformed event is reported.      *)
(***************************************************************************)
C7_PerEventFaultTolerance ==
    (Loaded /\ opts.include_event_markers) =>
        LET oks == SelectSeq(rec.events, IsOk)
            markers == SelectSeq(host.actions[1].pose_markers, FrameSet)
        IN  /\ markers = [i \in 1..Len(oks) |->
                            [name |-> oks[i].label,
                             frame |-> RoundHalfEven(IntTimesRat(oks[i].frame,
                                                                 ResampleFactor)),
                             frame_set |-> TRUE]]
            /\ (\E i \in 1..Len(rec.events) : ~IsOk(rec.events[i]))
                   => \E k \in 1..Len(host.reports) : host.reports[k][1] = "WARNING"

(***************************************************************************)
(* Specification of the batch import: ImportC3D.execute on a list of files, *)
(* or on the single file path when the list is empty.                      *)
(***************************************************************************)
GoodFile ==
    [readable |-> TRUE, file_name |-> <<"g">>,
     labels |-> << <<"A", ":", "h">>, <<"h">> >>, first_frame |-> 1,
     frames |-> << << [pos |-> <<1000, 2000, 3000>>, res |-> 0],
                      [pos |-> <<0, 0, 5>>, res |-> 0] >> >>,
     frame_rate |-> <<30, 1>>, vendor_mask |-> <<TRUE, TRUE>>, events |-> <<>>]

(* A file without point data: load returns CANCELLED. *)
NoPointsFile ==
    [readable |-> TRUE, file_name |-> <<"n">>, labels |-> <<>>, first_frame |-> 1,
     frames |-> << <<>> >>, frame_rate |-> <<30, 1>>, vendor_mask |-> <<>>,
     events |-> <<>>]

(* A file the parser cannot read: load raises. *)
UnreadableFile == [readable |-> FALSE, file_name |-> <<"u">>]

(* A file whose only frame is all zero: load raises after its scene settings. *)
ZeroOnlyFile ==
    [readable |-> TRUE, file_name |-> <<"z">>, labels |-> << <<"h">> >>, first_frame |-> 1,
     frames |-> << << [pos |-> <<0, 0, 0>>, res |-> 0] >> >>,
     frame_rate |-> <<30, 1>>, vendor_mask |-> <<TRUE>>, events |-> <<>>]

FilePool == {GoodFile, NoPointsFile, UnreadableFile, ZeroOnlyFile}

OrdersOf(r, o) == IF r.readable THEN ArmatureOrders(r, o) ELSE {<<>>}

InitBatch ==
    /\ pc = "start"
    /\ files \in SeqsUpTo(FilePool, MaxFiles)
    /\ rec \in IF files = <<>> THEN FilePool ELSE {NoRec}
    /\ opts = DefaultOpts
    /\ host = NewHost
    /\ result = "none"
    /\ labels = <<>>
    /\ actor_masks = <<>>
    /\ actor_order = <<>>
    /\ out = <<>>

Execute ==
    /\ pc = "start"
    /\ pc' = "executed"
    /\ \E orders \in {os \in [1..Len(files) -> UNION {OrdersOf(r, opts) : r \in Range(files)}] :
                         \A i \in 1..Len(files) : os[i] \in OrdersOf(files[i], opts)} :
        \E order \in OrdersOf(rec, opts) :
            \E done \in {ImportC3D_execute(host, files, rec, opts, orders, order)} :
                /\ host' = done.host
                /\ result' = done.result
                /\ out' = [calls |-> done.calls, failed |-> done.failed]
    /\ UNCHANGED <<labels, actor_masks, actor_order, rec, opts, files>>

NextBatch == Execute

SpecBatch == InitBatch /\ [][NextBatch]_vars

NotFinished(call) == call.msg # "FINISHED"

(***************************************************************************)
(* C8: batch isolation: every file of the list is passed to load exactly   *)
(* once, in order, whatever the earlier loads did; the failed paths are    *)
(* those whose load raised or did not return FINISHED and they are         *)
(* reported; the operator returns CANCELLED iff every file failed.         *)
(***************************************************************************)
C8_BatchIsolation ==
    (pc = "executed" /\ files # <<>>) =>
        LET expected == SelectSeq(out.calls, NotFinished)
        IN  /\ [i \in 1..Len(out.calls) |-> out.calls[i].path]
                   = [i \in 1..Len(files) |-> PathOf(files[i])]
            /\ out.failed = [i \in 1..Len(expected) |-> expected[i].path]
            /\ result = IF Len(expected) = Len(files) THEN "CANCELLED" ELSE "FINISHED"
            /\ expected # <<>> =>
                   host.reports[Len(host.reports)][2] = out.failed

(* A batch whose first file raises, whose second is cancelled and whose third *)
(* is loaded.                                                                  *)
C8_Witness ==
    /\ pc = "executed"
    /\ Len(files) >= 3
    /\ out.calls[1].msg = "EXCEPTION"
    /\ out.calls[2].msg = "CANCELLED"
    /\ out.calls[3].msg = "FINISHED"
    /\ Len(out.failed) = 2
    /\ result = "FINISHED"
    /\ Len(host.actions) > 0

(***************************************************************************)
(* C11: with include_empty_labels disabled, every F-Curve that remains in  *)
(* an action created by load has at least one keyframe point.              *)
(***************************************************************************)
C11_EveryChannelHasKeyframes ==
    (Loaded /\ ~opts.include_empty_labels) =>
        \A a \in 1..Len(host.actions) : \A c \in 1..Len(host.actions[a].fcurves) :
            Len(host.actions[a].fcurves[c].keyframe_points) >= 1

(* A load that pruned the location curves of a label without valid samples *)
(* and kept curves of a label with valid samples.                          *)
C11_Witness ==
    /\ Loaded
    /\ ~opts.include_empty_labels
    /\ \E p \in 1..Len(rec.labels) :
        ValidFrames(rec, opts, p) = <<>> /\ LocationCurvesOf(p) = {}
    /\ \E p \in 1..Len(rec.labels) : LocationCurvesOf(p) # {}

(***************************************************************************)
(* What load is given for one entity: the labels its combined mask         *)
(* (vendor mask and entity mask) selects, and the actions named after it.  *)
(***************************************************************************)
Entities == DOMAIN ArmatureMasks(rec, opts)

SelectedPoints(a) ==
    {i \in 1..Len(rec.labels) :
        /\ ArmatureMasks(rec, opts)[a][i]
        /\ (opts.apply_label_mask => rec.vendor_mask[i])}

ActionsOf(a) ==
    {k \in 1..Len(host.actions) : host.actions[k].name = <<rec.file_name, a>>}

NamePool ==
    { <<"h">>,
      <<"A", ":", "h">>,
      <<"B", ":", "h">>,
      <<"h", "_", "2">> }

InitLabels ==
    /\ pc = "start"
    /\ rec \in Recordings(SeqsUpTo(NamePool, MaxLabels),
                          {[pos |-> <<1000, 2000, 3000>>, res |-> 0]},
                          {1}, {0}, {<<30, 1>>}, FALSE, {<<>>})
    /\ \E split \in BOOLEAN :
        opts = [DefaultOpts EXCEPT !.apply_label_mask = FALSE,
                                   !.split_actors = split,
                                   !.include_empty_labels = TRUE]
    /\ host = NewHost
    /\ result = "none"
    /\ Idle

SpecLabels == InitLabels /\ [][NextLoad]_vars

IsResidualCurve(fc) == ~IsLocationCurve(fc)

MaxExportFrames == 2

Curve(data_path, array_index, bone, keyframe_points) ==
    [data_path |-> data_path, array_index |-> array_index, group |-> bone, point |-> 0,
     keyframe_points |-> keyframe_points]

BoneH == <<"h">>

BoneK == <<"k">>

(* The data path of the location of an object: no bone, no '"'. *)
ObjectPath == <<"location">>

CurveLists ==
    { <<>>,
      (* a bone keyed in every dimension at frames 0 and 1, with its residual *)
      << Curve(LocationPath(BoneH), 0, BoneH, << <<RatOfInt(0), 10>>, <<RatOfInt(1), 11>> >>),
         Curve(LocationPath(BoneH), 1, BoneH, << <<RatOfInt(0), 20>>, <<RatOfInt(1), 21>> >>),
         Curve(LocationPath(BoneH), 2, BoneH, << <<RatOfInt(0), 30>>, <<RatOfInt(1), 31>> >>),
         Curve(ResidualPath(BoneH), 0, BoneH, << <<RatOfInt(0), 0>> >>) >>,
      (* a bone keyed in x at frame 1 and in y at frame 0 only *)
      << Curve(LocationPath(BoneH), 0, BoneH, << <<RatOfInt(1), 7>> >>),
         Curve(LocationPath(BoneH), 1, BoneH, << <<RatOfInt(0), 8>> >>) >>,
      (* a complete bone and a bone with a residual curve only *)
      << Curve(LocationPath(BoneH), 0, BoneH, << <<RatOfInt(1), 10>> >>),
         Curve(LocationPath(BoneH), 1, BoneH, << <<RatOfInt(1), 20>> >>),
         Curve(LocationPath(BoneH), 2, BoneH, << <<RatOfInt(1), 30>> >>),
         Curve(ResidualPath(BoneK), 0, BoneK, << <<RatOfInt(0), -1>> >>) >>,
      (* keyframes at times -0.7, 1.6 and 4 *)
      << Curve(LocationPath(BoneK), 2, BoneK,
               << <<Rat(-7, 10), 5>>, <<Rat(8, 5), 6>>, <<RatOfInt(4), 9>> >>) >>,
      (* a bone and a curve of the armature object itself *)
      << Curve(LocationPath(BoneH), 0, BoneH, << <<RatOfInt(0), 10>> >>),
         Curve(ObjectPath, 0, <<>>, << <<RatOfInt(0), 1>> >>) >> }

ArmatureNames == {UNLABELED, <<"A">>}

(* Scenes with up to two armature objects of different names, each with its action. *)
ExportHosts ==
    UNION { { [scene |-> [fps |-> 24, frame_start |-> fs, frame_end |-> fs + n - 1,
                          sync_mode |-> "NONE"],
               collections |-> <<>>,
               actions |-> [i \in 1..Len(names) |->
                               [name |-> <<FileName, names[i]>>, fcurves |-> curves[i],
                                pose_markers |-> <<>>]],
               armatures |-> [i \in 1..Len(names) |->
                                 [name |-> names[i], bones |-> GroupNames(curves[i], <<>>),
                                  action |-> i]],
               reports |-> <<>>] :
                 fs \in 0..1, n \in 1..MaxExportFrames,
                 curves \in [1..Len(names) -> CurveLists] } :
            names \in {ns \in SeqsUpTo(ArmatureNames, 2) :
                          \A i, j \in 1..Len(ns) : i # j => ns[i] # ns[j]} }

InitExport ==
    /\ pc = "loaded"
    /\ host \in ExportHosts
    /\ rec = NoRec
    /\ opts = NoOpts
    /\ result = "none"
    /\ Idle

NextExport == Export

SpecExport == InitExport /\ [][NextExport]_vars

(***************************************************************************)
(* What the claims about export speak of.                                  *)
(***************************************************************************)
Exported == pc = "exported"

(* Some keyframe point of a location curve named as column b, of an object *)
(* in the export scope, has a time whose frame (by FrameOf) is row f.      *)
KeyAtCell(f, b, FrameOf(_)) ==
    \E i \in Range(out.objects) : \E fc \in Range(ActionCurves(host, i)) :
        /\ IsLocationCurve(fc)
        /\ get_full_bone_name(host.armatures[i], fc) = out.file.labels[b]
        /\ \E k \in 1..Len(fc.keyframe_points) :
            FrameOf(fc.keyframe_points[k][1]) - host.scene.frame_start = f - 1

(* The same for one dimension of the cell. *)
KeyAtDim(f, b, d, FrameOf(_)) ==
    \E i \in Range(out.objects) : \E fc \in Range(ActionCurves(host, i)) :
        /\ IsLocationCurve(fc)
        /\ fc.array_index = d
        /\ get_full_bone_name(host.armatures[i], fc) = out.file.labels[b]
        /\ \E k \in 1..Len(fc.keyframe_points) :
            FrameOf(fc.keyframe_points[k][1]) - host.scene.frame_start = f - 1

(***************************************************************************)
(* C14: export residual invariant: a cell of the exported array has        *)
(* residual 0 if some keyframe point of a location curve of its label maps *)
(* to its frame (in any single dimension) and residual -1 otherwise, and a *)
(* cell with residual -1 has position (0, 0, 0).                           *)
(***************************************************************************)
C14_ExportResiduals ==
    (Exported /\ out.file.written) =>
        \A f \in 1..Len(out.file.frames) : \A b \in 1..Len(out.file.labels) :
            LET cell == out.file.frames[f][b]
            IN  /\ cell.res = IF KeyAtCell(f, b, IntPart) THEN 0 ELSE -1
                /\ cell.res = -1 => cell.pos = <<0, 0, 0>>

(* An export with a cell written in one dimension but not in another, and a *)
(* cell that nothing was written to.                                         *)
C14_Witness ==
    /\ Exported
    /\ out.file.written
    /\ \E f \in 1..Len(out.file.frames) : \E b \in 1..Len(out.file.labels) :
        /\ out.file.frames[f][b].res = 0
        /\ \E d \in 0..2 : ~KeyAtDim(f, b, d, IntPart)
    /\ \E f \in 1..Len(out.file.frames) : \E b \in 1..Len(out.file.labels) :
        out.file.frames[f][b].res = -1

(* The names of the location curves of the objects, in order of discovery. *)
RECURSIVE PositionLabels(_, _)
PositionLabels(h, objects) ==
    IF objects = <<>> THEN <<>>
    ELSE LET fcurves == SelectSeq(ActionCurves(h, Head(objects)), IsLocationCurve)
         IN  [c \in 1..Len(fcurves) |->
                 get_full_bone_name(h.armatures[Head(objects)], fcurves[c])]
             \o PositionLabels(h, Tail(objects))

(***************************************************************************)
(* C15: export label set: the labels written are exactly the distinct      *)
(* names that have a location curve in the export scope, each once, in     *)
(* order of discovery; a bone with a residual curve only is not a label.   *)
(***************************************************************************)
C15_ExportLabelSet ==
    (Exported /\ out.file.returned # "EXCEPTION") =>
        out.file.labels = Dedupe(PositionLabels(host, out.objects), <<>>)

(***************************************************************************)
(* C16: export frame mapping: one row per frame of the scene range         *)
(* [frame_start, frame_end], and a cell is written exactly when the time   *)
(* of some keyframe point of its label, rounded to a frame, is its frame;  *)
(* a keyframe whose frame is outside the range changes no cell.            *)
(***************************************************************************)
C16_ExportFrameMapping ==
    (Exported /\ out.file.written) =>
        /\ Len(out.file.frames) = host.scene.frame_end - host.scene.frame_start + 1
        /\ \A f \in 1..Len(out.file.frames) : \A b \in 1..Len(out.file.labels) :
            out.file.frames[f][b].res = 0 <=> KeyAtCell(f, b, RoundHalfEven)

(* No object of the export scope has an action with curves. *)
NothingToExport == \A i \in Range(out.objects) : ActionCurves(host, i) = <<>>

(***************************************************************************)
(* C17: export with nothing to export: no file is written and the caller   *)
(* is told of a non-success (CANCELLED), not of a finished export and not  *)
(* of an error.                                                            *)
(***************************************************************************)
C17_NothingToExport ==
    (Exported /\ NothingToExport) =>
        /\ ~out.file.written
        /\ out.returned = "CANCELLED"

(***************************************************************************)
(* C18: partition mask definition: the labels are split once on the first  *)
(* ':'; the mask of the default entity UNLABELED selects exactly the       *)
(* labels without ':', the mask of a named entity exactly the labels whose *)
(* part before the first ':' is that name; the labels                      *)
(* <<"A:h", "A:k", "h">> give A -> {1, 2} and UNLABELED -> {3}.            *)
(***************************************************************************)
C18_MaskDefinition ==
    pc = "done" =>
        /\ DOMAIN actor_masks =
               {SplitLeft(labels[i]) : i \in {j \in 1..Len(labels) : HasColon(labels[j])}}
               \cup {UNLABELED : i \in {j \in 1..Len(labels) : ~HasColon(labels[j])}}
        /\ \A a \in DOMAIN actor_masks :
            /\ DOMAIN actor_masks[a] = 1..Len(labels)
            /\ \A i \in 1..Len(labels) :
                actor_masks[a][i] <=>
                    IF a = UNLABELED THEN ~HasColon(labels[i])
                    ELSE HasColon(labels[i]) /\ SplitLeft(labels[i]) = a
        /\ labels = << <<"A", ":", "h">>, <<"A", ":", "k">>, <<"h">> >> =>
               actor_masks = (<<"A">> :> <<TRUE, TRUE, FALSE>>)
                                 @@ (UNLABELED :> <<FALSE, FALSE, TRUE>>)

(* 'A:B:C' is of the entity 'A' and 'AB:x' is not, in one label list. *)
C18_Witness ==
    /\ pc = "done"
    /\ labels = << <<"A", ":", "B", ":", "C">>, <<"A", "B", ":", "x">>, <<"A", ":", "h">> >>
    /\ actor_masks[<<"A">>] = <<TRUE, FALSE, TRUE>>
    /\ actor_masks[<<"A", "B">>] = <<FALSE, TRUE, FALSE>>

(***************************************************************************)
(* Specification of the keyframe generation: load of a recording with one  *)
(* label and up to MaxKeyFrames frames, under an orientation matrix, a     *)
(* residual threshold and a resample factor.                               *)
(***************************************************************************)
MaxKeyFrames == 3

InitKeyframes ==
    /\ pc = "start"
    /\ rec \in Recordings({<< <<"h">> >>}, SamplePool, 1..MaxKeyFrames, 0..MaxFirstFrame,
                          {<<30, 1>>}, FALSE, {<<>>})
    /\ \E orient \in {Identity, SwapScaled}, maxres \in {0, 2}, resample \in BOOLEAN,
          setrate \in BOOLEAN, empty \in BOOLEAN :
        opts = [DefaultOpts EXCEPT !.global_orient = orient,
                                   !.max_residual = maxres,
                                   !.resample_frame_rate = resample,
                                   !.set_frame_rate = setrate,
                                   !.include_empty_labels = empty]
    /\ host = NewHost
    /\ result = "none"
    /\ Idle

SpecKeyframes == InitKeyframes /\ [][NextLoad]_vars

(* The position of a sample under the orientation matrix m. *)
Transformed(m, pos) ==
    [d \in 1..3 |-> m[d][1] * pos[1] + m[d][2] * pos[2] + m[d][3] * pos[3]]

RatLess(a, b) == RatLeq(a, b) /\ a # b

(***************************************************************************)
(* C19: sparse position keyframing: each of the three location curves of a *)
(* retained label has exactly one keyframe for every frame in which the    *)
(* label is valid and none for the others; the three curves have the same  *)
(* keyframe times, strictly increasing, and the value of the keyframe of a *)
(* frame is the transformed position of the label at that frame.           *)
(***************************************************************************)
C19_SparsePositionKeys ==
    Loaded =>
        \A p \in 1..Len(rec.labels) :
            LET fs == ValidFrames(rec, opts, p)
                curves == LocationCurvesOf(p)
            IN  /\ curves # {} =>
                       \A d \in 0..2 :
                           Cardinality({fc \in curves : fc.array_index = d}) = 1
                /\ \A fc \in curves :
                    /\ Len(fc.keyframe_points) = Len(fs)
                    /\ \A k \in 1..Len(fs) :
                        /\ fc.keyframe_points[k][1] =
                               IntTimesRat(fs[k] - rec.first_frame, ResampleFactor)
                        /\ fc.keyframe_points[k][2] =
                               Transformed(opts.global_orient,
                                           SampleAt(rec, fs[k], p).pos)[fc.array_index + 1]
                    /\ \A k \in 1..(Len(fs) - 1) :
                        RatLess(fc.keyframe_points[k][1], fc.keyframe_points[k + 1][1])
                /\ \A fc1, fc2 \in curves :
                    [k \in 1..Len(fc1.keyframe_points) |-> fc1.keyframe_points[k][1]]
                        = [k \in 1..Len(fc2.keyframe_points) |-> fc2.keyframe_points[k][1]]

(* A label valid in two frames with an invalid frame between them, under an *)
(* axis swap and a resample factor other than 1.                            *)
C19_Witness ==
    /\ Loaded
    /\ opts.global_orient = SwapScaled
    /\ ResampleFactor # RatOfInt(1)
    /\ Len(ValidFrames(rec, opts, 1)) = 2
    /\ ValidFrames(rec, opts, 1)[2] = ValidFrames(rec, opts, 1)[1] + 2
    /\ \E fc \in LocationCurvesOf(1) :
        /\ fc.array_index = 0
        /\ Len(fc.keyframe_points) = 2
        /\ fc.keyframe_points[1][2] = 4000

ResidualCurvesOf(p) == {fc \in AllCurves : IsResidualCurve(fc) /\ fc.point = p}

(* The frames at which the raw residual of label p starts or changes. *)
ChangeFrames(r, p) ==
    {f \in ImportedFrames(r) :
        f = r.first_frame \/ SampleAt(r, f, p).res # SampleAt(r, f - 1, p).res}

(* The value a curve with constant interpolation holds at time t: that of the *)
(* last keyframe at or before t.                                              *)
HeldValue(fc, t) ==
    LET k == CHOOSE i \in 1..Len(fc.keyframe_points) :
                 /\ RatLeq(fc.keyframe_points[i][1], t)
                 /\ \A j \in 1..Len(fc.keyframe_points) :
                     RatLeq(fc.keyframe_points[j][1], t) => j <= i
    IN  fc.keyframe_points[k][2]

(***************************************************************************)
(* C20: residual run-length compression: a residual curve has a keyframe   *)
(* at the first frame and then only at the frames whose residual differs   *)
(* from that of the frame before; consecutive keyframes never have equal   *)
(* values, and holding each value until the next keyframe gives the raw    *)
(* residual of every frame.                                                *)
(***************************************************************************)
C20_ResidualRunLength ==
    Loaded =>
        \A p \in 1..Len(rec.labels) : \A fc \in ResidualCurvesOf(p) :
            /\ Len(fc.keyframe_points) = Cardinality(ChangeFrames(rec, p))
            /\ KeyTimes(fc) = {IntTimesRat(f, ResampleFactor) : f \in ChangeFrames(rec, p)}
            /\ fc.keyframe_points[1][1] = IntTimesRat(rec.first_frame, ResampleFactor)
            /\ \A k \in 1..(Len(fc.keyframe_points) - 1) :
                /\ fc.keyframe_points[k][2] # fc.keyframe_points[k + 1][2]
                /\ RatLess(fc.keyframe_points[k][1], fc.keyframe_points[k + 1][1])
            /\ \A f \in ImportedFrames(rec) :
                HeldValue(fc, IntTimesRat(f, ResampleFactor)) = SampleAt(rec, f, p).res

(* A residual that is held over two frames and then changes. *)
C20_Witness ==
    /\ Loaded
    /\ Cardinality(ImportedFrames(rec)) = 3
    /\ SampleAt(rec, rec.first_frame, 1).res = SampleAt(rec, rec.first_frame + 1, 1).res
    /\ SampleAt(rec, rec.first_frame + 1, 1).res # SampleAt(rec, rec.first_frame + 2, 1).res
    /\ \E fc \in ResidualCurvesOf(1) : Len(fc.keyframe_points) = 2

(* The entity names of a label list in the order in which they are first seen. *)
FirstSeen(lbls) == Dedupe([i \in 1..Len(lbls) |-> ActorOf(lbls[i])], <<>>)

(***************************************************************************)
(* C21: deterministic entity order: with split_actors, load visits the     *)
(* entities in the order in which their names are first seen in the label  *)
(* list, and creates its actions in that order.                            *)
(***************************************************************************)
C21_FirstSeenOrder ==
    (Loaded /\ opts.split_actors) =>
        /\ actor_order = FirstSeen(rec.labels)
        /\ [k \in 1..Len(host.actions) |-> host.actions[k].name[2]] = FirstSeen(rec.labels)

(***************************************************************************)
(* Specification of two imports that differ in one label: the operator     *)
(* loads the files "f" and "g", which hold the same recording but for the  *)
(* samples of one label.                                                   *)
(***************************************************************************)
PairLabels == << <<"A", ":", "h">>, <<"h">> >>

InitPair ==
    /\ pc = "start"
    /\ \E first \in Recordings({PairLabels}, SamplePool, 1..MaxFrames, 0..MaxFirstFrame,
                               {<<30, 1>>}, FALSE, {<<>>}) :
        \E changed \in 1..Len(PairLabels) :
            \E samples \in [1..Len(first.frames) -> SamplePool] :
                files = << first,
                           [first EXCEPT
                               !.file_name = <<"g">>,
                               !.frames = [f \in 1..Len(first.frames) |->
                                              [first.frames[f] EXCEPT ![changed] = samples[f]]]] >>
    /\ rec = NoRec
    /\ opts = [DefaultOpts EXCEPT !.apply_label_mask = FALSE]
    /\ host = NewHost
    /\ result = "none"
    /\ labels = <<>>
    /\ actor_masks = <<>>
    /\ actor_order = <<>>
    /\ out = <<>>

SpecPair == InitPair /\ [][NextBatch]_vars

(* The curves load made for the entity a of the file r. *)
EntityCurves(r, a) ==
    LET k == CHOOSE i \in 1..Len(host.actions) : host.actions[i].name = <<r.file_name, a>>
    IN  host.actions[k].fcurves

(* The two files hold the same samples for every label of the entity a. *)
SameSamples(a) ==
    \A p \in 1..Len(PairLabels) :
        ActorOf(PairLabels[p]) = a =>
            \A f \in 1..Len(files[1].frames) : files[1].frames[f][p] = files[2].frames[f][p]

(***************************************************************************)
(* C22: entity independence: the channels of an entity depend only on the  *)
(* samples of the labels its mask selects: two recordings that differ only *)
(* in samples of another entity's labels (the final frame included) give   *)
(* the entity the same curves, keyframe times and keyframe values.         *)
(***************************************************************************)
C22_EntityIndependence ==
    (pc = "executed" /\ out.calls[1].msg = "FINISHED" /\ out.calls[2].msg = "FINISHED") =>
        \A a \in get_actors(PairLabels) :
            SameSamples(a) => EntityCurves(files[1], a) = EntityCurves(files[2], a)

(* The label positions of the curves of an action that satisfy Test, in order. *)
PointsOf(action, Test(_)) ==
    LET curves == SelectSeq(action.fcurves, Test)
    IN  [c \in 1..Len(curves) |-> curves[c].point]

(***************************************************************************)
(* C23: non-splitting and unmasked mode: with split_actors disabled load   *)
(* makes exactly one entity, whose mask selects all labels; with           *)
(* apply_label_mask disabled as well, the labels of that entity are all    *)
(* labels of the recording in storage order: with include_empty_labels     *)
(* each has its three location curves and its residual curve, and without  *)
(* it every label with a valid sample has.                                 *)
(***************************************************************************)
C23_NonSplittingMode ==
    (Loaded /\ ~opts.split_actors) =>
        /\ actor_order = <<rec.file_name>>
        /\ Len(host.actions) = 1
        /\ host.actions[1].name = <<rec.file_name, rec.file_name>>
        /\ ~opts.apply_label_mask =>
            LET n == Len(rec.labels)
                residual == PointsOf(host.actions[1], IsResidualCurve)
                location == PointsOf(host.actions[1], IsLocationCurve)
            IN  /\ opts.include_empty_labels =>
                    /\ residual = [p \in 1..n |-> p]
                    /\ location = [c \in 1..(3 * n) |-> ((c - 1) \div 3) + 1]
                /\ \A p \in 1..n :
                    ValidFrames(rec, opts, p) # <<>> =>
                        /\ p \in Range(residual)
                        /\ Cardinality({c \in 1..Len(location) : location[c] = p}) = 3
                /\ \A c \in 1..(Len(residual) - 1) : residual[c] < residual[c + 1]

(* A recording with labels of two entities loaded as one entity, with all *)
(* eight curves.                                                          *)
C23_Witness ==
    /\ Loaded
    /\ ~opts.split_actors
    /\ ~opts.apply_label_mask
    /\ opts.include_empty_labels
    /\ rec.labels = << <<"A", ":", "h">>, <<"h">> >>
    /\ Len(host.actions) = 1
    /\ Len(host.actions[1].fcurves) = 8

(* The native frames of a recording but for a final frame whose positions are *)
(* exactly zero for all labels.                                               *)
FramesButZeroEnd(r) ==
    IF TrailingZeroFrame(r) THEN r.first_frame..(last_frame(r) - 1)
    ELSE r.first_frame..last_frame(r)

(***************************************************************************)
(* C24: the trailing-frame heuristic removes the final frame only, and     *)
(* only when the positions of all labels in it are exactly zero: every     *)
(* other frame (an all-zero frame before the end, a final frame with a     *)
(* non-zero coordinate however small) is imported, so a label has one      *)
(* position keyframe for each of those frames in which it is valid and a   *)
(* residual keyframe for the first of them and each change among them.     *)
(***************************************************************************)
C24_TrailingFrameOnly ==
    Loaded =>
        \A p \in 1..Len(rec.labels) :
            /\ \A fc \in LocationCurvesOf(p) :
                Len(fc.keyframe_points) =
                    Cardinality({f \in FramesButZeroEnd(rec) :
                                    PolicyValid(SampleAt(rec, f, p).res, opts.max_residual)})
            /\ \A fc \in ResidualCurvesOf(p) :
                Len(fc.keyframe_points) =
                    Cardinality({f \in FramesButZeroEnd(rec) :
                                    \/ f = rec.first_frame
                                    \/ SampleAt(rec, f, p).res # SampleAt(rec, f - 1, p).res})

(* The elements of a set of integers in increasing order. *)
Ascending(S) ==
    CHOOSE seq \in Perms(S) : \A i \in 1..(Len(seq) - 1) : seq[i] < seq[i + 1]

(***************************************************************************)
(* C25: position and residual channels share one time base: for every      *)
(* label, a native frame that has both a position keyframe and a residual  *)
(* keyframe has them at the same time, for every first_frame and resample  *)
(* factor.                                                                 *)
(***************************************************************************)
C25_SharedTimeBase ==
    Loaded =>
        \A p \in 1..Len(rec.labels) :
            LET valid == ValidFrames(rec, opts, p)
                changes == Ascending(ChangeFrames(rec, p))
            IN  \A fc \in LocationCurvesOf(p) : \A rc \in ResidualCurvesOf(p) :
                    \A k \in 1..Len(fc.keyframe_points) : \A j \in 1..Len(rc.keyframe_points) :
                        (k <= Len(valid) /\ j <= Len(changes) /\ valid[k] = changes[j]) =>
                            fc.keyframe_points[k][1] = rc.keyframe_points[j][1]

(***************************************************************************)
(* C26: keyframes lie inside the timeline set by the import: after load    *)
(* with set_end_frame and resample factor 1, every position keyframe time  *)
(* is between scene.frame_start and scene.frame_end, and the keyframe of   *)
(* the last imported frame is at scene.frame_end, whether a trailing       *)
(* all-zero frame was dropped or not.                                      *)
(***************************************************************************)
C26_KeyframesInTimeline ==
    (Loaded /\ opts.set_end_frame /\ ResampleFactor = RatOfInt(1)) =>
        \A p \in 1..Len(rec.labels) : \A fc \in LocationCurvesOf(p) :
            LET n == Len(fc.keyframe_points)
                valid == ValidFrames(rec, opts, p)
            IN  /\ \A k \in 1..n :
                    /\ RatLeq(RatOfInt(host.scene.frame_start), fc.keyframe_points[k][1])
                    /\ RatLeq(fc.keyframe_points[k][1], RatOfInt(host.scene.frame_end))
                /\ (n > 0 /\ \A f \in ImportedFrames(rec) : f <= valid[Len(valid)]) =>
                       fc.keyframe_points[n][1] = RatOfInt(host.scene.frame_end)

(***************************************************************************)
(* C27: single-frame edge case: load of a recording with point data whose  *)
(* only frame has all-zero positions ends without an exception.            *)
(***************************************************************************)
C27_SingleZeroFrame ==
    (pc = "loaded" /\ rec.labels # <<>> /\ Len(rec.frames) = 1 /\ TrailingZeroFrame(rec)) =>
        result # "EXCEPTION"

(***************************************************************************)
(* Specification of the names on the way in and out: load with             *)
(* split_actors of a recording of one frame with pairwise distinct labels, *)
(* then export.                                                            *)
(***************************************************************************)
NameLabelLists ==
    { << <<"A", ":", "h">>, <<"h">> >>,
      << <<"B", ":", "h">>, <<"A", ":", "h">> >>,
      << <<"A", ":", "B", ":", "C">>, <<"A", "B", ":", "x">> >>,
      << <<"a", Quote, "b">> >> }

InitNames ==
    /\ pc = "start"
    /\ rec \in Recordings(NameLabelLists, SamplePool, {1}, {0}, {<<30, 1>>}, FALSE, {<<>>})
    /\ opts = [DefaultOpts EXCEPT !.apply_label_mask = FALSE,
                                  !.split_actors = TRUE,
                                  !.include_empty_labels = TRUE]
    /\ host = NewHost
    /\ result = "none"
    /\ Idle

SpecNames == InitNames /\ [][NextRoundTrip]_vars

(* The recording labels of the curves of the exported objects. *)
ExportedPoints ==
    UNION { {fc.point : fc \in Range(ActionCurves(host, a))} : a \in Range(out.objects) }

(***************************************************************************)
(* C28: export label names invert the import split: after an import with   *)
(* split_actors of pairwise distinct labels, the label export writes for a *)
(* bone is the recording label of that bone ('actor:name' for a bone of    *)
(* the armature of actor, 'name' for a bone of the armature UNLABELED).    *)
(***************************************************************************)
C28_ExportNamesInvertSplit ==
    (Exported /\ out.file.written) =>
        Range(out.file.labels) = {rec.labels[p] : p \in ExportedPoints}

(***************************************************************************)
(* Specification of the resampling: load of recordings with integral and   *)
(* fractional native frame rates (30, 59.94 and 12.5 frames per second),   *)
(* with and without set_frame_rate and resample_frame_rate.                *)
(***************************************************************************)
RatePool == { <<30, 1>>, <<2997, 50>>, <<25, 2>> }

InitRates ==
    /\ pc = "start"
    /\ rec \in Recordings({<< <<"h">> >>}, SamplePool, 1..MaxFrames, 0..MaxFirstFrame,
                          RatePool, FALSE, {<<>>})
    /\ \E resample \in BOOLEAN, setrate \in BOOLEAN :
        opts = [DefaultOpts EXCEPT !.resample_frame_rate = resample,
                                   !.set_frame_rate = setrate]
    /\ host = NewHost
    /\ result = "none"
    /\ Idle

SpecRates == InitRates /\ [][NextLoad]_vars

(* The factor as stated: scene fps over native rate, the scene fps being *)
(* int(native rate) when set_frame_rate has set it.                      *)
StatedFactor ==
    IF ~opts.resample_frame_rate THEN RatOfInt(1)
    ELSE IF opts.set_frame_rate
         THEN Rat((rec.frame_rate[1] \div rec.frame_rate[2]) * rec.frame_rate[2],
                  rec.frame_rate[1])
         ELSE Rat(NewHost.scene.fps * rec.frame_rate[2], rec.frame_rate[1])

(***************************************************************************)
(* C29: resample factor ordering: the keyframe times are frame numbers     *)
(* times scene fps / native rate, with the scene fps taken after           *)
(* set_frame_rate has set it to int(native rate): with both options on the *)
(* factor is int(rate) / rate, which is 1 for an integral rate, and with   *)
(* resample_frame_rate off it is 1.                                        *)
(***************************************************************************)
C29_ResampleFactorOrdering ==
    Loaded =>
        /\ (opts.resample_frame_rate /\ opts.set_frame_rate /\ rec.frame_rate[2] = 1) =>
               StatedFactor = RatOfInt(1)
        /\ \A p \in 1..Len(rec.labels) :
            /\ \A rc \in ResidualCurvesOf(p) :
                KeyTimes(rc) = {IntTimesRat(f, StatedFactor) : f \in ChangeFrames(rec, p)}
            /\ \A fc \in LocationCurvesOf(p) :
                KeyTimes(fc) = {IntTimesRat(f - rec.first_frame, StatedFactor) :
                                   f \in Range(ValidFrames(rec, opts, p))}

(* A load with both options on of a recording at 59.94 frames per second, *)
(* with a position keyframe at 59 / 59.94 and a residual keyframe after   *)
(* time 0.                                                                *)
C29_Witness ==
    /\ Loaded
    /\ opts.resample_frame_rate
    /\ opts.set_frame_rate
    /\ rec.frame_rate = <<2997, 50>>
    /\ host.scene.fps = 59
    /\ \E fc \in LocationCurvesOf(1) : Rat(2950, 2997) \in KeyTimes(fc)
    /\ \E rc \in ResidualCurvesOf(1) : \E t \in KeyTimes(rc) : t[1] > 0

(* The curves in the export scope whose data path names no bone. *)
NonBoneCurves ==
    UNION { {fc \in Range(ActionCurves(host, a)) : Quote \notin Range(fc.data_path)} :
              a \in Range(out.objects) }

(***************************************************************************)
(* C30: export tolerates non-bone curves: export_c3d ends without an       *)
(* exception for every set of armature actions in scope; a curve whose     *)
(* data path has no double-quoted bone name gives no label and no sample,  *)
(* and the curves of the bones are exported.                               *)
(***************************************************************************)
C30_ExportToleratesNonBoneCurves ==
    Exported =>
        /\ out.file.returned # "EXCEPTION"
        /\ (NonBoneCurves # {} /\ PositionLabels(host, out.objects) # <<>>) =>
               out.file.written

====
